---- MODULE Spec2Model ----
(***************************************************************************)
(* A model of weget (src/weget.py), the wrapper around the winget package  *)
(* manager.  One behaviour is one invocation of the program: main() checks *)
(* winget, parses the arguments, and either passes the command through or  *)
(* handles a package list (one package in the current window, with the     *)
(* download post-processing pipeline, or one new window per package).      *)
(* Strings are TLA+ strings; the string functions of the code (lower,      *)
(* startswith, endswith, split, in, shlex.quote, os.path) are computed     *)
(* character by character.  Python's None for a str is modelled as the     *)
(* empty string: every test the code makes of output_path and of           *)
(* download_folder is a truthiness test, which None and "" both fail.      *)
(* Spec is one invocation on an empty file system; SpecRepeat is a single- *)
(* package download invoked again on the file system the last run left.    *)
(***************************************************************************)
EXTENDS Integers, Sequences, FiniteSets, TLC

VARIABLES
    argv,                 \* sys.argv[1:]
    pc,                   \* position of the program
    is_winget_available,  \* main: result of check_winget()
    command,              \* main: the verb, after .lower()
    packages,             \* main: the package list
    output_path,          \* main / handle_multi_package: -o value ("" is None)
    archive_download,     \* main: archive flag
    run_installer,        \* main: effective run flag
    fs,                   \* the file system: directory path -> set of entries
    download_folder,      \* handle_multi_package: located folder ("" is None)
    target_folder,        \* handle_multi_package: resolved folder
    idx,                  \* handle_multi_package: loop index of the launch loop
    failed_packages,      \* handle_multi_package: packages whose launch failed
    calls,                \* run_winget invocations so far: [args, rc]
    launches,             \* subprocess.Popen invocations so far: [package, cmdline, ok]
    executed,             \* installers started by subprocess.run([item_path])
    printed,              \* the messages printed so far (by kind)
    trace,                \* the steps of handle_multi_package taken so far
    exitCode,             \* the process exit status (-1 while running)
    unhandled,            \* TRUE when the process ended by an uncaught exception
    runs                  \* the invocations of the program so far, this one included

vars == <<argv, pc, is_winget_available, command, packages, output_path,
          archive_download, run_installer, fs, download_folder, target_folder,
          idx, failed_packages, calls, launches, executed, printed, trace,
          exitCode, unhandled, runs>>

----------------------------------------------------------------------------
(* Bounds of the model *)

\* the longest argument list after the verb
MaxArgs == 3
\* the backend's exit statuses are drawn from 0..MaxRetCode
MaxRetCode == 2
\* the successive invocations of the program on one file system
MaxRuns == 2

----------------------------------------------------------------------------
(* Strings *)

StartsWith(s, p) == Len(s) >= Len(p) /\ SubSeq(s, 1, Len(p)) = p

EndsWith(s, p) == Len(s) >= Len(p) /\ SubSeq(s, Len(s) - Len(p) + 1, Len(s)) = p

\* python: sub in s
Contains(s, sub) ==
    \E i \in 1..(Len(s) - Len(sub) + 1) : SubSeq(s, i, i + Len(sub) - 1) = sub

SetMax(S) == CHOOSE m \in S : \A n \in S : n <= m

\* the positions of character c in s
Positions(s, c) == {i \in 1..Len(s) : SubSeq(s, i, i) = c}

\* python: s.split(c)[-1]
LastSegment(s, c) ==
    IF Positions(s, c) = {} THEN s
    ELSE SubSeq(s, SetMax(Positions(s, c)) + 1, Len(s))

UpperAlpha == "ABCDEFGHIJKLMNOPQRSTUVWXYZ"
LowerAlpha == "abcdefghijklmnopqrstuvwxyz"

\* the lower-case letter of each upper-case letter
UpperToLower ==
    [c \in {SubSeq(UpperAlpha, i, i) : i \in 1..Len(UpperAlpha)} |->
        LET i == CHOOSE j \in Positions(UpperAlpha, c) : TRUE
        IN  SubSeq(LowerAlpha, i, i)]

LowerChar(c) == IF c \in DOMAIN UpperToLower THEN UpperToLower[c] ELSE c

RECURSIVE Lower(_)
\* python: s.lower()
Lower(s) == IF s = "" THEN "" ELSE LowerChar(SubSeq(s, 1, 1)) \o Lower(Tail(s))

\* the characters shlex.quote leaves unquoted: [a-zA-Z0-9@%+=:,./-_]
SafeChars == UpperAlpha \o LowerAlpha \o "0123456789_@%+=:,./-"

RECURSIVE QuoteEscape(_)
\* python: s.replace("'", "'\"'\"'")
QuoteEscape(s) ==
    IF s = "" THEN ""
    ELSE (IF SubSeq(s, 1, 1) = "'" THEN "'\"'\"'" ELSE SubSeq(s, 1, 1))
         \o QuoteEscape(Tail(s))

\* python: shlex.quote(s)
ShlexQuote(s) ==
    IF s = "" THEN "''"
    ELSE IF \A i \in 1..Len(s) : Positions(SafeChars, SubSeq(s, i, i)) # {} THEN s
    ELSE "'" \o QuoteEscape(s) \o "'"

----------------------------------------------------------------------------
(* Paths and the file system *)

Sep == "\\"
\* os.path.expanduser("~")
HomeDir == "C:\\Users\\u"
\* os.getcwd()
Cwd == "C:\\w"

\* os.path.join(a, b) for a relative b
PathJoin(a, b) == IF EndsWith(a, Sep) THEN a \o b ELSE a \o Sep \o b

\* os.path.basename(p)
Basename(p) == LastSegment(p, Sep)

\* os.path.dirname(p)
Dirname(p) ==
    IF Positions(p, Sep) = {} THEN ""
    ELSE SubSeq(p, 1, SetMax(Positions(p, Sep)) - 1)

IsAbs(p) == StartsWith(p, Sep) \/ (Len(p) >= 3 /\ SubSeq(p, 2, 3) = ":\\")

\* os.path.abspath(p)
Abspath(p) == IF IsAbs(p) THEN p ELSE PathJoin(Cwd, p)

\* os.path.expanduser("~\\Downloads")
DownloadsDir == PathJoin(HomeDir, "Downloads")

\* An entry of a directory: a folder with its listing (in os.listdir order) or a file.
Entry(n, d, t, its) == [name |-> n, isdir |-> d, mtime |-> t, items |-> its]

DirExists(f, d) == d \in DOMAIN f

\* os.listdir(d), as the entries
ListDir(f, d) == f[d]

\* the entry at path p, as a set (empty when p does not exist)
EntryAt(f, p) ==
    IF DirExists(f, Dirname(p))
    THEN {e \in f[Dirname(p)] : e.name = Basename(p)}
    ELSE {}

\* os.path.exists(p)
PathExists(f, p) == DirExists(f, p) \/ EntryAt(f, p) # {}

\* os.path.isdir(p)
IsDir(f, p) == DirExists(f, p) \/ \E e \in EntryAt(f, p) : e.isdir

\* os.makedirs(d, exist_ok=True)
MakeDirs(f, d) ==
    IF DirExists(f, d) THEN f
    ELSE [x \in DOMAIN f \cup {d} |-> IF x = d THEN {} ELSE f[x]]

\* shutil.rmtree(p)
RmTree(f, p) ==
    IF DirExists(f, Dirname(p))
    THEN [f EXCEPT ![Dirname(p)] = {e \in @ : e.name # Basename(p)}]
    ELSE f

\* create or replace the entry e in directory d
PutEntry(f, d, e) ==
    [f EXCEPT ![d] = {x \in @ : x.name # e.name} \cup {e}]

\* shutil.move(src, dst) of a folder: a rename to dst, or, when dst is an
\* existing directory, a move into it
Move(f, src, dst) ==
    LET e == CHOOSE x \in EntryAt(f, src) : TRUE
        g == RmTree(f, src)
    IN  IF \E x \in EntryAt(f, dst) : x.isdir
        THEN LET d == CHOOSE x \in EntryAt(f, dst) : TRUE
             IN  PutEntry(g, Dirname(dst), [d EXCEPT !.items = Append(@, e.name)])
        ELSE PutEntry(g, Dirname(dst), [e EXCEPT !.name = Basename(dst)])

\* make_archive writing nothing
MakeArchive_nothing(f, base, root) == f

\* shutil.make_archive(base, 'zip', root): writes base.zip, a file holding the
\* listing of the folder root
MakeArchive(f, base, root) ==
    PutEntry(f, Dirname(base),
             Entry(Basename(base) \o ".zip", FALSE, 0,
                   (CHOOSE e \in EntryAt(f, root) : TRUE).items))

----------------------------------------------------------------------------
(* Program constants and pure functions *)

\* the keys of MULTI_PACKAGE_COMMANDS
MULTI_PACKAGE_COMMANDS == {"install", "download"}

\* The outcome of a subprocess.run: the exception it raised ("" when none) and
\* the return code of the process (when none was raised)
Outcome(e, r) == [exc |-> e, rc |-> r]

\* check_winget(), given platform.system() and the outcome of `winget --version`
check_winget(system, probe) ==
    IF system # "Windows"
    THEN [ok |-> FALSE, msg |-> "This application requires Windows."]
    ELSE IF probe.exc = "FileNotFoundError"
    THEN [ok |-> FALSE, msg |-> "Winget is not installed or not in PATH."]
    ELSE IF probe.exc # ""
    THEN [ok |-> FALSE, msg |-> "Error checking winget: " \o probe.exc]
    ELSE IF probe.rc = 0
    THEN [ok |-> TRUE, msg |-> ""]
    ELSE [ok |-> FALSE, msg |-> "Winget is not installed or not accessible."]

\* parse_args: the locals before the loop
ParseStart(args) ==
    [status |-> "ok", command |-> args[1], output_path |-> "", packages |-> <<>>,
     archive_download |-> FALSE, run_installer |-> FALSE,
     run_flag_present |-> FALSE, archive_flag_present |-> FALSE,
     warned |-> FALSE, bad |-> ""]

\* parse_args without the demotion of --run
ParseFinish_keep_run(st) ==
    IF st.archive_flag_present /\ st.run_flag_present
    THEN [st EXCEPT !.warned = TRUE]
    ELSE st

\* parse_args: after the loop, --run is dropped when --archive is present
ParseFinish(st) ==
    IF st.archive_flag_present /\ st.run_flag_present
    THEN [st EXCEPT !.warned = TRUE, !.run_installer = FALSE]
    ELSE st

\* parse_args taking every remaining token for a package
IsUnknownOption_never(arg) == FALSE

\* parse_args: elif arg.startswith('-')
IsUnknownOption(arg) == StartsWith(arg, "-")

RECURSIVE ParseLoop(_, _, _)
\* parse_args: the while loop, from index i (1-based; args[1] is the command)
ParseLoop(args, i, st) ==
    IF i > Len(args) THEN ParseFinish(st)
    ELSE LET arg == args[i] IN
         IF arg \in {"-o", "--output"}
         THEN IF i + 1 <= Len(args)
              THEN ParseLoop(args, i + 2, [st EXCEPT !.output_path = args[i + 1]])
              ELSE [st EXCEPT !.status = "no_output_value"]
         ELSE IF arg \in {"-a", "--archive"} /\ st.command = "download"
         THEN ParseLoop(args, i + 1, [st EXCEPT !.archive_download = TRUE,
                                                !.archive_flag_present = TRUE])
         ELSE IF arg \in {"-r", "--run"} /\ st.command = "download"
         THEN ParseLoop(args, i + 1, [st EXCEPT !.run_installer = TRUE,
                                                !.run_flag_present = TRUE])
         ELSE IF IsUnknownOption(arg)
         THEN [st EXCEPT !.status = "unknown_option", !.bad = arg]
         ELSE ParseLoop(args, i + 1, [st EXCEPT !.packages = Append(@, arg)])

\* parse_args(), given sys.argv[1:]; status "help" is show_help() and sys.exit(0),
\* "no_output_value" and "unknown_option" are the two sys.exit(1)
parse_args(args) ==
    IF Len(args) < 1
    THEN [ParseStart(<<"">>) EXCEPT !.status = "help"]
    ELSE ParseLoop(args, 2, ParseStart(args))

\* run_winget with the except branch returning the success status
run_winget_swallow(outcome) == IF outcome.exc # "" THEN 0 ELSE outcome.rc

\* run_winget: the return code it returns, given the outcome of subprocess.run
run_winget(outcome) == IF outcome.exc # "" THEN 1 ELSE outcome.rc

\* run_winget: what it prints
run_winget_prints(outcome) ==
    IF outcome.exc # "" THEN {"Error running winget: " \o outcome.exc} ELSE {}

\* find_latest_download: the short name of the package
package_name(package_id) == LastSegment(package_id, ".")

\* find_latest_download: the matching folders of the downloads directory
matching_folders(f, package_id) ==
    {e \in ListDir(f, DownloadsDir) :
        e.isdir /\ Contains(e.name, package_name(package_id))}

\* find_latest_download: the folders max(..., key=os.path.getmtime) can return
latest_folders(f, package_id) ==
    {e \in matching_folders(f, package_id) :
        \A g \in matching_folders(f, package_id) : g.mtime <= e.mtime}

\* handle_multi_package: the command line of a new window
cmdline(cmd, package) ==
    "start cmd /k \"winget " \o cmd \o " " \o ShlexQuote(package) \o " && exit || pause\""

\* handle_multi_package: the installers of the run step, in os.listdir order
IsInstaller(item) == EndsWith(item, ".exe") \/ EndsWith(item, ".msi")

\* any installer of a listing, the loop running without its break order
FirstInstaller_any(items) == {items[i] : i \in {j \in 1..Len(items) : IsInstaller(items[j])}}

\* the first installer of a listing, as a set (empty when there is none)
FirstInstaller(items) ==
    {items[i] : i \in {j \in 1..Len(items) :
                        /\ IsInstaller(items[j])
                        /\ \A k \in 1..(j - 1) : ~IsInstaller(items[k])}}

----------------------------------------------------------------------------
(* The inputs *)

\* the command verbs tried
Verbs == {"download", "Download", "install", "upgrade", "list"}

\* the tokens that may follow the verb
Tokens == {"-o", "-a", "--archive", "-r", "--run", "-q", "Vendor.App", "Lib"}

RECURSIVE SeqsUpTo(_, _)
\* the sequences over S of length at most n
SeqsUpTo(S, n) ==
    IF n = 0 THEN {<<>>}
    ELSE SeqsUpTo(S, n - 1) \cup
         {Append(q, x) : q \in {r \in SeqsUpTo(S, n - 1) : Len(r) = n - 1}, x \in S}

\* the argument vectors: none, or a verb and up to MaxArgs tokens
ArgVectors == {<<>>} \cup {<<v>> \o t : v \in Verbs, t \in SeqsUpTo(Tokens, MaxArgs)}

\* single-package downloads with an output directory: plain, with the run flag
\* and with the archive flag
RepeatArgVectors ==
    {<<"download", p, "-o", "out">> \o f :
        p \in {"Vendor.App", "Lib"}, f \in {<<>>, <<"-r">>, <<"-a">>}}

\* downloads of two packages, with and without the download flags
BatchArgVectors ==
    {<<"download", "Vendor.App", "Lib">> \o f :
        f \in {<<>>, <<"-o", "out">>, <<"-a">>, <<"-r">>, <<"-o", "out", "-a">>,
               <<"-o", "out", "-r">>}}

\* what platform.system() may return
Systems == {"Windows", "Linux"}

\* the outcomes of `winget --version`
ProbeOutcomes ==
    {Outcome("", r) : r \in 0..1} \cup
    {Outcome("FileNotFoundError", 0), Outcome("OSError", 0)}

\* the outcomes of a backend invocation by run_winget
BackendOutcomes ==
    {Outcome("", r) : r \in 0..MaxRetCode} \cup {Outcome("OSError", 0)}

\* folders and files a backend download may leave in the downloads directory
DownloadCandidates ==
    { Entry("App_1", TRUE, 1, <<"setup.exe">>),
      Entry("App_2", TRUE, 2, <<"notes.txt", "App.msi", "x.exe">>),
      Entry("App.txt", FALSE, 3, <<>>),
      Entry("Lib_1", TRUE, 4, <<"readme.txt">>),
      Entry("App_1", TRUE, 5, <<"setup.exe", "new.dat">>) }

\* a directory holds one entry per name
UniqueNames(E) == \A x, y \in E : x.name = y.name => x = y

\* what a successful `winget download` did to the downloads directory: nothing
\* (the directory is left as it was, absent if it was absent), or it wrote entries
DownloadEffects ==
    {[wrote |-> FALSE, entries |-> {}]} \cup
    {[wrote |-> TRUE, entries |-> E] :
        E \in {X \in SUBSET DownloadCandidates : UniqueNames(X)}}

\* the file system after a backend download with effect eff
BackendDownload(f, eff) ==
    IF ~eff.wrote THEN f
    ELSE LET g == MakeDirs(f, DownloadsDir)
             names == {e.name : e \in eff.entries}
         IN  [g EXCEPT ![DownloadsDir] =
                 {x \in @ : x.name \notin names} \cup eff.entries]

----------------------------------------------------------------------------
(* Messages *)

\* show_help: the first line of the usage text (VERSION = "0.4.0")
Usage == "weget 0.4.0 - winget enhancement wrapper"
RunIgnoredWarning ==
    "Warning: --run is ignored when --archive is used. Only archiving will be performed."
OutputOnlyDownloadError ==
    "Error: Output path can only be specified for the download command"
NoOutputValueError == "Error: Output path not specified after -o/--output"
\* the report of an uncaught exception
Traceback == "Traceback (most recent call last):"

----------------------------------------------------------------------------
(* The program *)

Init ==
    /\ argv \in ArgVectors \cup RepeatArgVectors \cup BatchArgVectors
    /\ pc = "check"
    /\ is_winget_available = FALSE
    /\ command = ""
    /\ packages = <<>>
    /\ output_path = ""
    /\ archive_download = FALSE
    /\ run_installer = FALSE
    /\ fs = [d \in {} |-> {}]
    /\ download_folder = ""
    /\ target_folder = ""
    /\ idx = 0
    /\ failed_packages = <<>>
    /\ calls = <<>>
    /\ launches = <<>>
    /\ executed = <<>>
    /\ printed = {}
    /\ trace = <<>>
    /\ exitCode = -1
    /\ unhandled = FALSE
    /\ runs = 1

\* sys.exit(code) or return code from main(), having printed msgs
Exit(code, msgs) ==
    /\ pc' = "done"
    /\ exitCode' = code
    /\ printed' = printed \cup msgs
    /\ unhandled' = FALSE

\* an exception nothing catches: the interpreter prints the traceback, status 1
Crash ==
    /\ pc' = "done"
    /\ exitCode' = 1
    /\ printed' = printed \cup {Traceback}
    /\ unhandled' = TRUE

\* main going on to parse_args whatever check_winget returned
AvailabilityFailed_never(ok) == FALSE

\* main: if not is_winget_available
AvailabilityFailed(ok) == ~ok

\* main: is_winget_available, error_message = check_winget()
CheckWinget ==
    /\ pc = "check"
    /\ \E system \in Systems, probe \in ProbeOutcomes :
         LET r == check_winget(system, probe) IN
         /\ is_winget_available' = r.ok
         /\ IF AvailabilityFailed(r.ok)
            THEN Exit(1, {"Error: " \o r.msg})
            ELSE pc' = "parse" /\ UNCHANGED <<exitCode, printed, unhandled>>
    /\ UNCHANGED <<argv, runs, command, packages, output_path, archive_download,
                   run_installer, fs, download_folder, target_folder, idx,
                   failed_packages, calls, launches, executed, trace>>

\* parse_args with help treated as an error
ParseExitCode_always_one(status) == IF status = "help" THEN 1 ELSE 1

\* parse_args: the status of its sys.exit calls
ParseExitCode(status) == IF status = "help" THEN 0 ELSE 1

\* parse_args: what it prints before a sys.exit
ParseExitPrints(r) ==
    IF r.status = "help" THEN {Usage}
    ELSE IF r.status = "no_output_value" THEN {NoOutputValueError}
    ELSE {"Unknown option: " \o r.bad}

\* main: command, packages, ... = parse_args(); command = command.lower()
ParseArgs ==
    /\ pc = "parse"
    /\ LET r == parse_args(argv) IN
       IF r.status # "ok" THEN
           /\ Exit(ParseExitCode(r.status), ParseExitPrints(r))
           /\ UNCHANGED <<command, packages, output_path, archive_download,
                          run_installer>>
       ELSE
           /\ command' = Lower(r.command)
           /\ packages' = r.packages
           /\ output_path' = r.output_path
           /\ archive_download' = r.archive_download
           /\ run_installer' = r.run_installer
           /\ printed' = printed \cup (IF r.warned THEN {RunIgnoredWarning} ELSE {})
           /\ pc' = "dispatch"
           /\ UNCHANGED <<exitCode, unhandled>>
    /\ UNCHANGED <<argv, runs, is_winget_available, fs, download_folder, target_folder,
                   idx, failed_packages, calls, launches, executed, trace>>

\* main: command in MULTI_PACKAGE_COMMANDS and packages
IsMultiPackage(cmd, pkgs) == cmd \in MULTI_PACKAGE_COMMANDS /\ pkgs # <<>>

\* the dispatcher without its check of the output path
OutputRejected_never(cmd, out) == FALSE

\* main: output_path and command != 'download'
OutputRejected(cmd, out) == out # "" /\ cmd # "download"

\* the passthrough without the output path
all_args_no_output(cmd, pkgs, out) == <<cmd>> \o pkgs

\* main: all_args of the passthrough
all_args(cmd, pkgs, out) ==
    <<cmd>> \o pkgs \o (IF out # "" THEN <<"-o", out>> ELSE <<>>)

\* main: the output path is refused for a command other than download
DispatchReject ==
    /\ pc = "dispatch"
    /\ IsMultiPackage(command, packages)
    /\ OutputRejected(command, output_path)
    /\ Exit(1, {OutputOnlyDownloadError})
    /\ UNCHANGED <<argv, runs, is_winget_available, command, packages, output_path,
                   archive_download, run_installer, fs, download_folder,
                   target_folder, idx, failed_packages, calls, launches,
                   executed, trace>>

\* handle_multi_package taking the single-package path whatever the count
IsSinglePackage_always(pkgs) == TRUE

\* handle_multi_package: if total_packages == 1
IsSinglePackage(pkgs) == Len(pkgs) = 1

\* main: return handle_multi_package(...), up to os.makedirs
HandleStart ==
    /\ pc = "dispatch"
    /\ IsMultiPackage(command, packages)
    /\ ~OutputRejected(command, output_path)
    /\ failed_packages' = <<>>
    /\ idx' = 1
    /\ IF output_path # ""
       THEN /\ output_path' = Abspath(output_path)
            /\ trace' = Append(trace, "makedirs")
            /\ \E ok \in BOOLEAN :
                 IF ok
                 THEN /\ fs' = MakeDirs(fs, Abspath(output_path))
                      /\ pc' = IF IsSinglePackage(packages) THEN "backend" ELSE "launch"
                      /\ UNCHANGED <<exitCode, printed, unhandled>>
                 ELSE /\ Crash
                      /\ UNCHANGED fs
       ELSE /\ pc' = IF IsSinglePackage(packages) THEN "backend" ELSE "launch"
            /\ UNCHANGED <<output_path, trace, fs, exitCode, printed, unhandled>>
    /\ UNCHANGED <<argv, runs, is_winget_available, command, packages, archive_download,
                   run_installer, download_folder, target_folder, calls, launches,
                   executed>>

\* main: the passthrough, return_code, _ = run_winget(all_args)
Passthrough ==
    /\ pc = "dispatch"
    /\ ~IsMultiPackage(command, packages)
    /\ \E outcome \in BackendOutcomes :
         /\ calls' = Append(calls, [args |-> all_args(command, packages, output_path),
                                    outcome |-> outcome])
         /\ Exit(run_winget(outcome), run_winget_prints(outcome))
    /\ UNCHANGED <<argv, runs, is_winget_available, command, packages, output_path,
                   archive_download, run_installer, fs, download_folder,
                   target_folder, idx, failed_packages, launches, executed, trace>>

\* handle_multi_package going on whatever run_winget returned
BackendFailed_never(result) == FALSE

\* handle_multi_package: if result != 0
BackendFailed(result) == result # 0

\* handle_multi_package, one package: result, _ = run_winget([command, package])
SingleBackend ==
    /\ pc = "backend"
    /\ trace' = Append(trace, "backend")
    /\ \E outcome \in BackendOutcomes :
         /\ calls' = Append(calls, [args |-> <<command, packages[1]>>,
                                    outcome |-> outcome])
         /\ IF BackendFailed(run_winget(outcome))
            THEN /\ Exit(1, run_winget_prints(outcome)
                            \cup {"Failed to " \o command \o " " \o packages[1]})
                 /\ UNCHANGED fs
            ELSE IF command = "download"
            THEN /\ \E eff \in DownloadEffects : fs' = BackendDownload(fs, eff)
                 /\ pc' = "locate"
                 /\ UNCHANGED <<exitCode, printed, unhandled>>
            ELSE /\ Exit(0, {})
                 /\ UNCHANGED fs
    /\ UNCHANGED <<argv, runs, is_winget_available, command, packages, output_path,
                   archive_download, run_installer, download_folder, target_folder,
                   idx, failed_packages, launches, executed>>

\* handle_multi_package: download_folder = find_latest_download(package)
Locate ==
    /\ pc = "locate"
    /\ trace' = Append(trace, "locate")
    /\ IF ~DirExists(fs, DownloadsDir)
       THEN \* os.listdir raises FileNotFoundError, which nothing catches
            /\ Crash
            /\ UNCHANGED download_folder
       ELSE IF matching_folders(fs, packages[1]) = {}
       THEN /\ Exit(1, {"Download folder not found for " \o packages[1]})
            /\ UNCHANGED download_folder
       ELSE /\ \E e \in latest_folders(fs, packages[1]) :
                 download_folder' = PathJoin(DownloadsDir, e.name)
            /\ pc' = "relocate"
            /\ UNCHANGED <<exitCode, printed, unhandled>>
    /\ UNCHANGED <<argv, runs, is_winget_available, command, packages, output_path,
                   archive_download, run_installer, fs, target_folder, idx,
                   failed_packages, calls, launches, executed>>

\* handle_multi_package: the destination of the move
TargetOf(out, folder) == PathJoin(out, Basename(folder))

\* handle_multi_package: where a step of the move may raise
MoveFailures(f, target) ==
    IF PathExists(f, target) /\ ~IsDir(f, target) THEN {"rmtree"}
    ELSE IF PathExists(f, target) THEN {"none", "rmtree", "move"}
    ELSE {"none", "move"}

\* the move without the removal of an existing destination
RemoveStale_skip(f, target) == f

\* handle_multi_package: if os.path.exists(target_folder): shutil.rmtree(target_folder)
RemoveStale(f, target) == IF PathExists(f, target) THEN RmTree(f, target) ELSE f

\* handle_multi_package: the move to the output path, or target_folder = download_folder
Relocate ==
    /\ pc = "relocate"
    /\ IF output_path # ""
       THEN LET target == TargetOf(output_path, download_folder) IN
            /\ target_folder' = target
            /\ trace' = trace \o (IF PathExists(fs, target) THEN <<"rmtree">> ELSE <<>>)
                            \o <<"relocate">>
            /\ \E failAt \in MoveFailures(fs, target) :
                 IF failAt = "none"
                 THEN /\ fs' = Move(RemoveStale(fs, target), download_folder, target)
                      /\ printed' = printed \cup {"Installer moved: " \o target}
                      /\ pc' = "archive"
                      /\ UNCHANGED <<exitCode, unhandled>>
                 ELSE /\ fs' = IF failAt = "move" THEN RemoveStale(fs, target) ELSE fs
                      /\ Exit(1, {"Error moving installer: " \o failAt})
       ELSE /\ target_folder' = download_folder
            /\ pc' = "archive"
            /\ UNCHANGED <<fs, trace, exitCode, printed, unhandled>>
    /\ UNCHANGED <<argv, runs, is_winget_available, command, packages, output_path,
                   archive_download, run_installer, download_folder, idx,
                   failed_packages, calls, launches, executed>>

\* handle_multi_package: if archive: make_archive, then rmtree of the folder
Archive ==
    /\ pc = "archive"
    /\ IF archive_download
       THEN /\ trace' = Append(trace, "archive")
            /\ \E failAt \in {"none", "make_archive", "rmtree"} :
                 IF failAt = "none"
                 THEN /\ fs' = RmTree(MakeArchive(fs, target_folder, target_folder), target_folder)
                      /\ printed' = printed \cup
                            {"Attempting to archive installer: " \o target_folder,
                             "Archived installer: " \o target_folder \o ".zip"}
                      /\ pc' = "run"
                      /\ UNCHANGED <<exitCode, unhandled>>
                 ELSE /\ fs' = IF failAt = "rmtree"
                               THEN MakeArchive(fs, target_folder, target_folder) ELSE fs
                      /\ Exit(1, {"Attempting to archive installer: " \o target_folder,
                                  "Error during archiving or cleanup: " \o failAt}
                                 \cup (IF failAt = "rmtree"
                                       THEN {"Archived installer: " \o target_folder \o ".zip"}
                                       ELSE {}))
       ELSE /\ pc' = "run"
            /\ UNCHANGED <<fs, trace, exitCode, printed, unhandled>>
    /\ UNCHANGED <<argv, runs, is_winget_available, command, packages, output_path,
                   archive_download, run_installer, download_folder, target_folder,
                   idx, failed_packages, calls, launches, executed>>

\* the listing of the folder at path p
ItemsOf(f, p) == (CHOOSE e \in EntryAt(f, p) : TRUE).items

\* the outcomes of subprocess.run([item_path], check=True)
InstallerOutcomes == {"ok", "CalledProcessError", "OSError"}

\* subprocess.run without check=True: the installer's status is not looked at
InstallerFailed_ignored(outcome) == FALSE

\* handle_multi_package: subprocess.run([item_path], check=True) raised
InstallerFailed(outcome) == outcome # "ok"

\* handle_multi_package: if run_installer and not archive: run the first installer
Run ==
    /\ pc = "run"
    /\ IF run_installer /\ ~archive_download
       THEN /\ trace' = Append(trace, "run")
            /\ IF FirstInstaller(ItemsOf(fs, target_folder)) = {}
               THEN /\ printed' = printed \cup
                          {"No executable found in " \o target_folder \o " to run."}
                    /\ pc' = "cleanup"
                    /\ UNCHANGED <<executed, exitCode, unhandled>>
               ELSE \E item \in FirstInstaller(ItemsOf(fs, target_folder)),
                       outcome \in InstallerOutcomes :
                    /\ executed' = Append(executed,
                           [path |-> PathJoin(target_folder, item), outcome |-> outcome])
                    /\ IF InstallerFailed(outcome)
                       THEN Exit(1, {"Error running installer: " \o outcome})
                       ELSE pc' = "cleanup" /\ UNCHANGED <<exitCode, printed, unhandled>>
       ELSE /\ pc' = "cleanup"
            /\ UNCHANGED <<trace, executed, exitCode, printed, unhandled>>
    /\ UNCHANGED <<argv, runs, is_winget_available, command, packages, output_path,
                   archive_download, run_installer, fs, download_folder,
                   target_folder, idx, failed_packages, calls, launches>>

\* handle_multi_package: if not archive: rmtree of the folder; return 0
Cleanup ==
    /\ pc = "cleanup"
    /\ IF ~archive_download
       THEN /\ trace' = Append(trace, "cleanup")
            /\ \E ok \in BOOLEAN :
                 IF ok
                 THEN fs' = RmTree(fs, target_folder) /\ Exit(0, {})
                 ELSE UNCHANGED fs /\ Exit(1, {"Error removing downloaded folder"})
       ELSE /\ Exit(0, {})
            /\ UNCHANGED <<fs, trace>>
    /\ UNCHANGED <<argv, runs, is_winget_available, command, packages, output_path,
                   archive_download, run_installer, download_folder, target_folder,
                   idx, failed_packages, calls, launches, executed>>

\* the launch loop without failed_packages.append(package)
RecordFailure_drop(failed, package, ok) == failed

\* handle_multi_package: except Exception: failed_packages.append(package)
RecordFailure(failed, package, ok) == IF ok THEN failed ELSE Append(failed, package)

\* handle_multi_package, several packages: one iteration of the launch loop
Launch ==
    /\ pc = "launch"
    /\ idx <= Len(packages)
    /\ \E ok \in BOOLEAN :
         /\ launches' = Append(launches,
                [package |-> packages[idx],
                 cmdline |-> cmdline(command, packages[idx]), ok |-> ok])
         /\ failed_packages' = RecordFailure(failed_packages, packages[idx], ok)
         /\ printed' = printed \cup
                {"Launching " \o packages[idx] \o " in new window..."} \cup
                (IF ok THEN {} ELSE {"Failed to launch window for " \o packages[idx]})
    /\ idx' = idx + 1
    /\ UNCHANGED <<argv, runs, pc, is_winget_available, command, packages, output_path,
                   archive_download, run_installer, fs, download_folder,
                   target_folder, calls, executed, trace, exitCode, unhandled>>

\* handle_multi_package, several packages: after the loop
LaunchEnd ==
    /\ pc = "launch"
    /\ idx > Len(packages)
    /\ IF failed_packages # <<>>
       THEN Exit(1, {"Failed to launch for packages:"})
       ELSE Exit(0, {})
    /\ UNCHANGED <<argv, runs, is_winget_available, command, packages, output_path,
                   archive_download, run_installer, fs, download_folder,
                   target_folder, idx, failed_packages, calls, launches, executed,
                   trace>>

\* the program is invoked again, with the same arguments, on the file system the
\* last invocation left
Restart ==
    /\ pc = "done"
    /\ runs < MaxRuns
    /\ runs' = runs + 1
    /\ pc' = "check"
    /\ is_winget_available' = FALSE
    /\ command' = ""
    /\ packages' = <<>>
    /\ output_path' = ""
    /\ archive_download' = FALSE
    /\ run_installer' = FALSE
    /\ download_folder' = ""
    /\ target_folder' = ""
    /\ idx' = 0
    /\ failed_packages' = <<>>
    /\ calls' = <<>>
    /\ launches' = <<>>
    /\ executed' = <<>>
    /\ printed' = {}
    /\ trace' = <<>>
    /\ exitCode' = -1
    /\ unhandled' = FALSE
    /\ UNCHANGED <<argv, fs>>

Next ==
    \/ CheckWinget
    \/ ParseArgs
    \/ DispatchReject
    \/ HandleStart
    \/ Passthrough
    \/ SingleBackend
    \/ Locate
    \/ Relocate
    \/ Archive
    \/ Run
    \/ Cleanup
    \/ Launch
    \/ LaunchEnd

Spec == Init /\ [][Next]_vars

InitRepeat == Init /\ argv \in RepeatArgVectors

\* successive invocations of a single-package download with an output directory
NextRepeat ==
    \/ CheckWinget
    \/ ParseArgs
    \/ HandleStart
    \/ SingleBackend
    \/ Locate
    \/ Relocate
    \/ Archive
    \/ Run
    \/ Cleanup
    \/ Restart

SpecRepeat == InitRepeat /\ [][NextRepeat]_vars

----------------------------------------------------------------------------
(* Vocabulary of the properties *)

Done == pc = "done"

\* parse_args ended the program with an argument error
ArgError ==
    \/ NoOutputValueError \in printed
    \/ \E m \in printed : StartsWith(m, "Unknown option: ")

\* main has a parsed descriptor: winget is available and parse_args returned
Dispatched ==
    /\ is_winget_available
    /\ pc \notin {"check", "parse"}
    /\ ~ArgError
    /\ Usage \notin printed

BatchVerbs == {"install", "upgrade", "download"}

IsFailureMessage(m) ==
    \/ StartsWith(m, "Error")
    \/ StartsWith(m, "Failed")
    \/ StartsWith(m, "Unknown option")
    \/ StartsWith(m, "Download folder not found")
    \/ m = Traceback

\* some unit of the invocation failed: a check, the parse, a backend call, a
\* pipeline stage, an installer, a launch
AnyFailure ==
    \/ \E m \in printed : IsFailureMessage(m)
    \/ \E i \in 1..Len(calls) : calls[i].outcome.exc # "" \/ calls[i].outcome.rc # 0
    \/ \E i \in 1..Len(executed) : executed[i].outcome # "ok"
    \/ \E i \in 1..Len(launches) : ~launches[i].ok
    \/ unhandled

HasToken(a, S) == \E i \in 2..Len(a) : a[i] \in S

\* a flag-like token stands where -o/--output takes its value
FlagAsOutputValue(a) ==
    \E i \in 2..(Len(a) - 1) : a[i] \in {"-o", "--output"} /\ StartsWith(a[i + 1], "-")

\* a single-package download that ran to its successful end
SingleDownloadOk ==
    Done /\ Dispatched /\ command = "download" /\ Len(packages) = 1 /\ exitCode = 0

----------------------------------------------------------------------------
(* C1 *)

\* C1: a single-package download with an output directory and without the
\* archive flag that exits 0 leaves the relocated folder
\* outputPath/basename(source) in place.
C1_MovedCopyRemains ==
    (/\ SingleDownloadOk /\ output_path # "" /\ ~archive_download
     /\ ~FlagAsOutputValue(argv))
        => PathExists(fs, TargetOf(output_path, download_folder))

(* C2 *)

\* C2: with one package no detached process is spawned; with two or more
\* packages under install, upgrade or download exactly one detached process per
\* package is spawned and the backend is not invoked synchronously.
C2_DispatchByCount ==
    (Done /\ Dispatched /\ ~unhandled) =>
        /\ Len(packages) = 1 => launches = <<>>
        /\ (/\ Len(packages) >= 2
            /\ command \in BatchVerbs
            /\ ~(output_path # "" /\ command # "download"))
           => /\ Len(launches) = Len(packages)
              /\ \A i \in 1..Len(packages) : launches[i].package = packages[i]
              /\ calls = <<>>

(* C3 *)

\* C3, as claimed: the exit code is 0 if every unit succeeded and exactly 1
\* otherwise, a failing passthrough included.
C3_ExitZeroOrOne ==
    Done => /\ exitCode \in {0, 1}
            /\ exitCode = 0 <=> ~AnyFailure

\* C3, amended: the exit code is 0 exactly if every unit succeeded; after a
\* failure it is 1, except in a passthrough, which exits with the backend's own
\* return code (1 when the backend could not be run).
C3_ExitCode ==
    Done =>
        /\ exitCode = 0 <=> ~AnyFailure
        /\ AnyFailure =>
             IF Dispatched /\ ~(command \in MULTI_PACKAGE_COMMANDS /\ packages # <<>>)
             THEN /\ Len(calls) = 1
                  /\ exitCode = IF calls[1].outcome.exc # "" THEN 1
                                ELSE calls[1].outcome.rc
             ELSE exitCode = 1

\* a passthrough ended with the backend's status 2
C3_Witness ==
    /\ Done /\ Dispatched /\ command = "list"
    /\ Len(calls) = 1 /\ calls[1].outcome = Outcome("", 2)
    /\ exitCode = 2

(* C4 *)

C5_ArchiveRunExclusive ==
    (/\ Len(argv) >= 1 /\ argv[1] = "download"
     /\ HasToken(argv, {"-a", "--archive"})
     /\ HasToken(argv, {"-r", "--run"})
     /\ ~FlagAsOutputValue(argv))
    => /\ executed = <<>>
       /\ Dispatched => /\ ~run_installer
                        /\ archive_download
                        /\ RunIgnoredWarning \in printed
       /\ (Len(packages) = 1 /\ pc \in {"run", "cleanup"})
             => /\ trace[Len(trace)] = "archive"
                /\ PathExists(fs, target_folder \o ".zip")
       /\ SingleDownloadOk
             => /\ trace[Len(trace)] = "archive"
                /\ PathExists(fs, target_folder \o ".zip")

\* download with -r before -a archived the folder of its one package
C5_Witness ==
    /\ SingleDownloadOk
    /\ \E i, j \in 2..Len(argv) : i < j /\ argv[i] = "-r" /\ argv[j] = "-a"
    /\ PathExists(fs, target_folder \o ".zip")
    /\ RunIgnoredWarning \in printed

(* C6 *)

\* C6: for verb upgrade, -a/--all is accepted: it is no argument error.
C6_UpgradeAllAccepted ==
    (/\ Done /\ is_winget_available
     /\ Len(argv) >= 2 /\ Lower(argv[1]) = "upgrade"
     /\ HasToken(argv, {"-a", "--all"})
     /\ \A i \in 2..Len(argv) : argv[i] \in {"-a", "--all"} \/ ~StartsWith(argv[i], "-"))
    => ~ArgError

(* C7 *)

NoFlagTokens(a) == \A i \in 2..Len(a) : ~StartsWith(a[i], "-")

C8_VerbCaseNormalized ==
    (/\ is_winget_available
     /\ Len(argv) >= 1
     /\ Lower(argv[1]) = "download")
    => LET ref == parse_args(<<"download">> \o Tail(argv)) IN
       /\ pc = "dispatch" =>
             /\ ref.status = "ok"
             /\ packages = ref.packages
             /\ output_path = ref.output_path
             /\ archive_download = ref.archive_download
             /\ run_installer = ref.run_installer
       /\ (Done /\ ArgError) => ref.status # "ok"

(* C9 *)

\* C9, as claimed: with no arguments the program prints the usage text and
\* exits 0, whatever the availability check finds.
C9_HelpAlways ==
    (Done /\ argv = <<>>) => exitCode = 0 /\ Usage \in printed

\* C9, amended: with no arguments the program prints the usage text and exits
\* 0 when the availability check passes; when it fails the program exits 1
\* with the availability error and prints no usage text.
C9_HelpWhenAvailable ==
    (Done /\ argv = <<>>) =>
        IF is_winget_available
        THEN exitCode = 0 /\ printed = {Usage} /\ calls = <<>> /\ launches = <<>>
        ELSE /\ exitCode = 1
             /\ Usage \notin printed
             /\ \E m \in printed : StartsWith(m, "Error: ")

\* no arguments, winget available: the usage text and status 0
C9_Witness ==
    Done /\ argv = <<>> /\ is_winget_available /\ Usage \in printed /\ exitCode = 0

(* C10 *)

\* C10: a single-package download without flags whose backend call succeeds
\* and for which no matching folder is found (the downloads directory may be
\* empty or missing) ends normally with a failure exit code, nothing moved or
\* deleted.
C10_NoMatchFailsCleanly ==
    (/\ Done /\ is_winget_available
     /\ Len(argv) = 2 /\ argv[1] = "download" /\ ~StartsWith(argv[2], "-")
     /\ Len(calls) = 1 /\ calls[1].outcome = Outcome("", 0)
     /\ download_folder = ""
     /\ \/ ~DirExists(fs, DownloadsDir)
        \/ matching_folders(fs, argv[2]) = {})
    => /\ ~unhandled
       /\ exitCode = 1
       /\ trace = <<"backend", "locate">>

(* C11 *)

\* C11: when the relocate step meets an existing destination
\* outputPath/basename(source), the step can succeed, and when it does the
\* destination holds the content of the source folder and nothing else and the
\* source folder is gone: a repeated download of the same package to the same
\* output directory passes the relocate step.
C11_RelocateReplacesStale ==
    [][ (/\ pc = "relocate" /\ output_path # ""
         /\ PathExists(fs, TargetOf(output_path, download_folder)))
        => LET target == TargetOf(output_path, download_folder)
               src == CHOOSE x \in EntryAt(fs, download_folder) : TRUE
           IN  /\ "none" \in MoveFailures(fs, target)
               /\ pc' = "archive" =>
                    /\ EntryAt(fs', target) = {[src EXCEPT !.name = Basename(target)]}
                    /\ ~PathExists(fs', download_folder)
                    /\ "Installer moved: " \o target \in printed'
      ]_vars

\* the second download relocated the new folder over the one the first left
C11_Witness ==
    /\ runs = 2 /\ pc = "archive"
    /\ trace = <<"makedirs", "backend", "locate", "rmtree", "relocate">>
    /\ \E e \in EntryAt(fs, target_folder) : e.items = <<"setup.exe", "new.dat">>

(* C12 *)

AvailabilityMessages ==
    {"Error: " \o check_winget(system, probe).msg :
        system \in Systems, probe \in ProbeOutcomes}

\* C12: when the platform check or the version probe fails, the program is
\* over with exit code 1 as soon as the check has been made, whatever the
\* arguments: nothing was parsed, the only output is the availability error
\* (no usage text, no argument error), no backend package operation was
\* invoked, no window launched, no installer run and no file or directory
\* created.
C12_AvailabilityFirst ==
    (pc # "check" /\ ~is_winget_available) =>
        /\ Done /\ exitCode = 1 /\ ~unhandled
        /\ printed \subseteq AvailabilityMessages /\ Cardinality(printed) = 1
        /\ command = "" /\ packages = <<>> /\ output_path = ""
        /\ calls = <<>> /\ launches = <<>> /\ executed = <<>> /\ trace = <<>>
        /\ DOMAIN fs = {}

\* the check failed in front of a command line with an argument error
C12_Witness ==
    /\ Done /\ ~is_winget_available /\ exitCode = 1
    /\ argv = <<"download", "Vendor.App", "-o">>
    /\ printed = {"Error: Winget is not installed or not in PATH."}

(* C13 *)

OutputFlags == {"-o", "--output"}

\* a flag-prefixed token that the specified grammar does not recognize for the
\* (case-normalized) verb
UnrecognizedFlag(verb, tok) ==
    /\ StartsWith(tok, "-")
    /\ tok \notin OutputFlags
    /\ ~(tok \in {"-a", "--archive", "-r", "--run"} /\ verb = "download")
    /\ ~(tok \in {"-a", "--all"} /\ verb = "upgrade")

\* the token at position i is an offending one: -o/--output in last place, or
\* an unrecognized flag
Offending(a, i, verb) ==
    \/ a[i] \in OutputFlags /\ i = Len(a)
    \/ UnrecognizedFlag(verb, a[i])

RECURSIVE ScannedFrom(_, _)
\* the positions the left-to-right scan stops at, from position i on: the
\* token after -o/--output is its value and is not scanned
ScannedFrom(a, i) ==
    IF i > Len(a) THEN {}
    ELSE {i} \cup ScannedFrom(a, IF a[i] \in OutputFlags THEN i + 2 ELSE i + 1)

\* nothing was done: no backend package operation, no window, no installer,
\* no pipeline step, no file or directory
NoWork ==
    /\ calls = <<>> /\ launches = <<>> /\ executed = <<>> /\ trace = <<>>
    /\ DOMAIN fs = {}

\* C13 as stated: a command line that contains an offending token anywhere
\* ends with exit code 1 and no work done.
C13_ArgErrorsDoNoWork ==
    LET verb == Lower(argv[1]) IN
    (Done /\ is_winget_available /\ \E i \in 2..Len(argv) : Offending(argv, i, verb))
        => exitCode = 1 /\ NoWork

\* C13: a command line in which the left-to-right scan meets an offending
\* token (one that is not the value of a preceding -o/--output) never does
\* any work, and ends with exit code 1 and, when the backend is available,
\* the argument error printed, wherever the token stands among valid ones.
C13_ScannedArgErrorsDoNoWork ==
    LET verb == Lower(argv[1]) IN
    (\E i \in ScannedFrom(argv, 2) : Offending(argv, i, verb)) =>
        /\ NoWork
        /\ Done => exitCode = 1 /\ ~unhandled /\ (is_winget_available => ArgError)

\* an unrecognized flag after a valid package token, with the backend available
C13_Witness ==
    /\ Done /\ is_winget_available /\ exitCode = 1
    /\ argv = <<"install", "Lib", "-r">>
    /\ printed = {"Unknown option: -r"}

(* C14 *)

PipelineSteps == <<"locate", "relocate", "archive", "run", "cleanup">>

IsPipelineStep(step) == \E r \in 1..Len(PipelineSteps) : PipelineSteps[r] = step

\* the place of a step in the order locate, relocate, archive, run, cleanup
StepRank(step) == CHOOSE r \in 1..Len(PipelineSteps) : PipelineSteps[r] = step

\* the single-package backend call was made and returned non-zero or raised
BackendCallFailed ==
    /\ Len(calls) = 1
    /\ calls[1].outcome.exc # "" \/ calls[1].outcome.rc # 0

\* C14: in a single-package download whose backend call fails no pipeline
\* step is performed and the exit code is 1; a pipeline step is performed
\* only in a download, after the backend call, which returned 0; and the steps
\* performed occur at most once each, in the order locate, relocate, archive,
\* run, cleanup.
C14_PipelineAfterBackend ==
    /\ (Dispatched /\ IsMultiPackage(command, packages) /\ Len(packages) = 1
        /\ BackendCallFailed)
         => /\ Done /\ exitCode = 1
            /\ \A i \in 1..Len(trace) : ~IsPipelineStep(trace[i])
    /\ \A j \in 1..Len(trace) : IsPipelineStep(trace[j]) =>
         /\ command = "download" /\ Len(packages) = 1
         /\ \E i \in 1..(j - 1) : trace[i] = "backend"
         /\ Len(calls) = 1 /\ calls[1].outcome = Outcome("", 0)
         /\ calls[1].args = <<"download", packages[1]>>
         /\ \A i \in 1..(j - 1) :
              IsPipelineStep(trace[i]) => StepRank(trace[i]) < StepRank(trace[j])

\* a download that went through locate, relocate, run and cleanup
C14_Witness ==
    /\ Done /\ exitCode = 0
    /\ trace = <<"makedirs", "backend", "locate", "relocate", "run", "cleanup">>
    /\ Len(executed) = 1

(* C15 *)

\* the positions of the listing whose name ends in .exe or .msi
InstallerPositions(items) ==
    {i \in 1..Len(items) : EndsWith(items[i], ".exe") \/ EndsWith(items[i], ".msi")}

\* the run step taken with the run flag effective
RunStepClaim ==
    (pc = "run" /\ run_installer /\ ~archive_download /\ pc' # "run") =>
        LET items == ItemsOf(fs, target_folder)
            P == InstallerPositions(items)
        IN  IF P = {}
            THEN /\ executed' = executed
                 /\ pc' = "cleanup"
                 /\ "No executable found in " \o target_folder \o " to run." \in printed'
            ELSE LET first == items[CHOOSE i \in P : \A k \in P : i <= k] IN
                 /\ Len(executed') = Len(executed) + 1
                 /\ executed'[Len(executed')].path = PathJoin(target_folder, first)
                 /\ IF executed'[Len(executed')].outcome = "ok"
                    THEN pc' = "cleanup"
                    ELSE pc' = "done" /\ exitCode' = 1

\* C15: with the run flag effective the run step executes the first direct
\* entry of the resolved folder whose name ends in .exe or .msi and no other,
\* so at most one installer per invocation; when there is none the step
\* reports it and goes on, and the invocation exits 0 when the cleanup
\* succeeds; when the installer exits non-zero or cannot be started the
\* invocation exits 1.
C15_RunStep ==
    /\ [][RunStepClaim]_vars
    /\ [](/\ Len(executed) <= 1
          /\ executed # <<>> => run_installer /\ ~archive_download
          /\ (Done /\ executed # <<>> /\ executed[1].outcome # "ok") => exitCode = 1
          /\ (Done /\ "cleanup" \in {trace[i] : i \in 1..Len(trace)}
                   /\ "Error removing downloaded folder" \notin printed)
               => exitCode = 0)

\* the run step went over a text file, ran the .msi behind it and left the
\* .exe after it alone
C15_Witness ==
    /\ Done /\ exitCode = 0 /\ run_installer
    /\ Len(executed) = 1
    /\ executed[1] = [path |-> PathJoin(DownloadsDir, PathJoin("App_2", "App.msi")),
                      outcome |-> "ok"]

(* C16 *)

RECURSIVE FailedLaunches(_)
\* the packages of the failed launches of a launch record, in order
FailedLaunches(ls) ==
    IF ls = <<>> THEN <<>>
    ELSE (IF Head(ls).ok THEN <<>> ELSE <<Head(ls).package>>) \o FailedLaunches(Tail(ls))

\* the launch loop of the multi-package path was entered
InLaunchLoop ==
    /\ Dispatched /\ IsMultiPackage(command, packages) /\ Len(packages) >= 2
    /\ ~unhandled /\ pc \in {"launch", "done"}
    /\ ~OutputRejected(command, output_path)

\* C16: in the multi-package path the launches made so far are one per
\* package, in list order, whatever their outcomes, and the failure list is
\* exactly the packages of the failed launches, in order; at the end every
\* package has had its one launch attempt and the exit code is 1 if and only
\* if a launch failed.
C16_LaunchFailuresCollected ==
    InLaunchLoop =>
        /\ Len(launches) <= Len(packages)
        /\ \A i \in 1..Len(launches) : launches[i].package = packages[i]
        /\ failed_packages = FailedLaunches(launches)
        /\ Done => /\ Len(launches) = Len(packages)
                   /\ exitCode \in {0, 1}
                   /\ exitCode = 1 <=> \E i \in 1..Len(launches) : ~launches[i].ok
                   /\ failed_packages # <<>> <=> "Failed to launch for packages:" \in printed

\* the first launch failed and the second package was launched all the same
C16_Witness ==
    /\ Done /\ exitCode = 1
    /\ packages = <<"Vendor.App", "Lib">>
    /\ Len(launches) = 2 /\ ~launches[1].ok /\ launches[2].ok
    /\ failed_packages = <<"Vendor.App">>

(* C17 *)

\* C17: a single-package download with the archive flag that exits 0 leaves
\* the archive basename(source).zip, holding the content of the source folder,
\* in the output directory when one was given and in the downloads directory
\* otherwise; the folder of that name is not there beside it, and the source
\* folder is gone from the downloads directory.
C17_RelocateThenArchive ==
    (SingleDownloadOk /\ archive_download) =>
        LET base == Basename(download_folder)
            dir == IF output_path # "" THEN output_path ELSE DownloadsDir
            zip == EntryAt(fs, PathJoin(dir, base \o ".zip"))
        IN  /\ Dirname(download_folder) = DownloadsDir
            /\ output_path # "" => IsAbs(output_path)
            /\ Cardinality(zip) = 1
            /\ \A z \in zip :
                 /\ ~z.isdir
                 /\ \E c \in DownloadCandidates : c.name = base /\ c.items = z.items
            /\ ~PathExists(fs, PathJoin(dir, base))
            /\ ~PathExists(fs, download_folder)
            /\ executed = <<>>

\* archived in the output directory after the move
C17_Witness ==
    /\ SingleDownloadOk /\ archive_download
    /\ output_path = PathJoin(Cwd, "out")
    /\ trace = <<"makedirs", "backend", "locate", "relocate", "archive">>
    /\ \E z \in ListDir(fs, output_path) : z.name = "App_2.zip"

(* C18 *)

RECURSIVE ShortName(_)
\* the segment of a package identifier after its last dot, the whole
\* identifier when it has no dot
ShortName(id) ==
    LET dots == {i \in 1..Len(id) : SubSeq(id, i, i) = "."} IN
    IF dots = {} THEN id
    ELSE ShortName(SubSeq(id, (CHOOSE i \in dots : \A k \in dots : i <= k) + 1, Len(id)))

\* the subdirectories of the downloads directory whose name contains the short
\* name of the package (none when there is no downloads directory)
Matches(f, id) ==
    IF DownloadsDir \in DOMAIN f
    THEN {e \in f[DownloadsDir] : e.isdir /\ Contains(e.name, ShortName(id))}
    ELSE {}

\* the locate step taken: what it selected, or that it reported 'not found'
LocateStepClaim(M) ==
    IF M = {}
    THEN /\ pc' = "done" /\ exitCode' = 1 /\ ~unhandled'
         /\ download_folder' = ""
         /\ "Download folder not found for " \o packages[1] \in printed'
    ELSE /\ pc' = "relocate"
         /\ \E e \in M : /\ download_folder' = PathJoin(DownloadsDir, e.name)
                         /\ \A g \in M : g.mtime <= e.mtime

\* C18: the locate step selects, among the subdirectories of the downloads
\* directory whose name contains the package's short name, one with the
\* greatest modification time, never a plain file or a directory without the
\* short name in its name, and reports 'not found' exactly when there is no
\* such subdirectory.
C18_LocateSelectsLatest ==
    [][(pc = "locate" /\ pc' # "locate") => LocateStepClaim(Matches(fs, packages[1]))]_vars

\* the same with the downloads directory in place
C18_LocateSelectsLatestInDownloads ==
    [][(pc = "locate" /\ pc' # "locate" /\ DirExists(fs, DownloadsDir))
         => LocateStepClaim(Matches(fs, packages[1]))]_vars

\* App_2 selected although the file App.txt is newer and Lib_1 newer still
C18_Selected ==
    /\ pc = "relocate" /\ packages = <<"Vendor.App">>
    /\ download_folder = PathJoin(DownloadsDir, "App_2")
    /\ {e.name : e \in ListDir(fs, DownloadsDir)} = {"App_1", "App_2", "App.txt", "Lib_1"}

(* C19 *)

\* the command line of the window of a package whose name needs no quoting
PlainCommandLine(package) ==
    "start cmd /k \"winget download " \o package \o " && exit || pause\""

\* C19: in a download of two or more packages the orchestrator makes no
\* backend call of its own, performs no locate, relocate, archive, run or
\* cleanup step and runs no installer, whatever the output path, archive and
\* run flags; each window gets the command line it gets without these flags;
\* and the only change to the file system is the output directory, created
\* empty when an output path is given.
C19_BatchDownloadIgnoresFlags ==
    (Dispatched /\ command = "download" /\ Len(packages) >= 2) =>
        /\ calls = <<>> /\ executed = <<>>
        /\ \A i \in 1..Len(trace) : trace[i] = "makedirs"
        /\ download_folder = "" /\ target_folder = ""
        /\ \A i \in 1..Len(launches) :
             launches[i].cmdline = PlainCommandLine(packages[i])
        /\ \A d \in DOMAIN fs : fs[d] = {}
        /\ output_path = "" => DOMAIN fs = {}
        /\ (output_path # "" /\ pc # "dispatch") =>
             /\ trace = <<"makedirs">>
             /\ DOMAIN fs = IF unhandled THEN {} ELSE {output_path}
        /\ (Done /\ ~unhandled) => Len(launches) = Len(packages)

\* two windows launched for a download with an output path and the archive flag
C19_Witness ==
    /\ Done /\ exitCode = 0
    /\ argv = <<"download", "Vendor.App", "Lib", "-o", "out", "-a">>
    /\ archive_download
    /\ Len(launches) = 2
    /\ DOMAIN fs = {PathJoin(Cwd, "out")}

(* C20 *)

\* the message each stage of the single-package pipeline prints when it fails
StageFailurePrefix ==
    [backend  |-> "Failed to download",
     locate   |-> "Download folder not found",
     relocate |-> "Error moving installer",
     archive  |-> "Error during archiving or cleanup",
     run      |-> "Error running installer",
     cleanup  |-> "Error removing downloaded folder"]

StageFailed(stage) == \E m \in printed : StartsWith(m, StageFailurePrefix[stage])

\* C20: in a single-package download a failed stage is the last thing done:
\* the program is over with exit code 1 and the failed stage is the last one
\* recorded; the exit code is 1 only when a stage failed (or an exception got
\* out); after a failed installer run there has been no cleanup and the
\* resolved folder is still there; after a failed backend call the output
\* directory, when one was given, exists.
C20_StageFailureStops ==
    (Dispatched /\ command = "download" /\ Len(packages) = 1) =>
        /\ \A stage \in DOMAIN StageFailurePrefix : StageFailed(stage) =>
             /\ Done /\ exitCode = 1
             /\ trace[Len(trace)] = stage
             /\ \A other \in DOMAIN StageFailurePrefix \ {stage} : ~StageFailed(other)
        /\ (Done /\ exitCode # 0) =>
             /\ exitCode = 1
             /\ unhandled \/ \E stage \in DOMAIN StageFailurePrefix : StageFailed(stage)
        /\ (\E i \in 1..Len(executed) : executed[i].outcome # "ok") =>
             /\ StageFailed("run")
             /\ \A i \in 1..Len(trace) : trace[i] # "cleanup"
             /\ IsDir(fs, target_folder)
        /\ (StageFailed("backend") /\ output_path # "") =>
             /\ DirExists(fs, output_path)
             /\ trace = <<"makedirs", "backend">>

\* the installer failed and the moved folder stayed in the output directory
C20_Witness ==
    /\ Done /\ exitCode = 1
    /\ argv = <<"download", "Vendor.App", "-o", "out", "-r">>
    /\ Len(executed) = 1 /\ executed[1].outcome = "CalledProcessError"
    /\ trace = <<"makedirs", "backend", "locate", "relocate", "run">>
    /\ \E e \in ListDir(fs, PathJoin(Cwd, "out")) : e.name = "App_1" /\ e.isdir

====
